---- MODULE Spec2Model ----
(***************************************************************************)
(* Model of simple-mcp-server.ts: the JSON-RPC request handler of the      *)
(* Petfinder MCP server, its per-client OAuth token cache and the ambient  *)
(* request credential context.                                             *)
(*                                                                         *)
(* JavaScript runs each request synchronously up to its first await that   *)
(* waits for the network; the actions below are those synchronous runs.    *)
(* Requests interleave only at the two network waits (the token exchange   *)
(* and the upstream API GET). The variable last shows the turn of the      *)
(* event loop that has just run, until the turn ends.                      *)
(***************************************************************************)
EXTENDS Integers, FiniteSets, Sequences, TLC

\* ---------------------------------------------------------------- bounds
NumReq == 2        \* number of HTTP requests in a behaviour
MaxTime == 120     \* the clock stops advancing here (seconds)
TickStep == 60     \* seconds by which the clock advances in one step

\* ------------------------------------------------------ program constants
SafetyMargin == 60 \* getAccessToken: cachedToken.expires_at > now + 60

\* headers.get() yields null for an absent header; a destructured field
\* that is not there is undefined. Both are falsy, as is the empty string.
Null == "<null>"
Undefined == "<undefined>"
Falsy(v) == v \in {Null, Undefined, ""}

\* -------------------------------------------------------- input domains
ClientIds == {"A", "B"}
Secrets == {"s1", "s2"}
ExpiresInSet == {60, 180}         \* expires_in values of the token endpoint
Statuses == {400, 401, 403, 404, 429, 500, 418} \* non-2xx upstream statuses
NetworkError == 0   \* fetch() rejects: no HTTP response, hence no status
Failures == Statuses \cup {NetworkError}
Methods == {"initialize", "tools/list", "tools/call", "foo/bar",
            "notifications/initialized"}
\* the id member of the request body, as JSON text; Undefined: no id member
Ids == {"7", "0"}
UnknownId == "\"unknown\""
\* arguments: accepted by the tool's schema ("ok": with none of status,
\* sort, page and limit; "paged": with page alone; "full": with the four),
\* rejected by it, or absent
ArgKinds == {"ok", "paged", "full", "bad", "none"}

\* the members of a search input that have defaults
SearchFields == {"status", "sort", "page", "limit"}
NoParams == [f \in SearchFields |-> Undefined]

\* what the arguments hold for these members, as JSON text
ArgObject(args) ==
  CASE args = "full" -> [status |-> "adopted", sort |-> "distance",
                         page |-> "2", limit |-> "50"]
    [] args = "paged" -> [NoParams EXCEPT !["page"] = "2"]
    [] OTHER -> NoParams
Reqs == 1..NumReq

\* the tool catalog sent by tools/list
tools_withoutBreeds ==
  <<"pets.search", "pets.get", "organizations.search",
    "organizations.get", "types.list", "types.get">>

tools == <<"pets.search", "pets.get", "organizations.search",
           "organizations.get", "types.list", "types.get", "breeds.list">>

ToolNames == {tools[i] : i \in 1..Len(tools)}

\* tool names tried by the callers: the registered ones, a name that no
\* object has, and a name every JavaScript object inherits
NameInputs == ToolNames \cup {"pets.delete", "toString"}

\* request metadata: the two credential headers and the two query parameters
MetaInputs ==
  { [hdrId |-> h[1], hdrSecret |-> h[2], qId |-> Null, qSecret |-> Null] :
      h \in { <<Null, Null>>, <<Null, "s1">>, <<"A", "">>,
              <<"A", "s1">>, <<"A", "s2">>, <<"B", "s1">> } }
  \cup { [hdrId |-> Null, hdrSecret |-> Null, qId |-> "A", qSecret |-> "s1"] }

\* the requests that arrive; a field the request does not have is fixed,
\* and so are the arguments where no tool handler runs to read them (the
\* name has no handler, or a credential header is missing)
RequestInputs ==
  { i \in [parses : BOOLEAN, id : Ids, method : Methods, hasParams : BOOLEAN,
           name : NameInputs, args : ArgKinds, meta : MetaInputs] :
      /\ ~i.parses => i.method = "initialize" /\ i.id = "7"
      /\ i.method # "tools/call" => ~i.hasParams
      /\ ~i.hasParams => i.name = "pets.get" /\ i.args = "none"
      /\ ( /\ i.hasParams
           /\ \/ i.name \notin ToolNames \cup {"toString"}
              \/ Falsy(i.meta.hdrId) \/ Falsy(i.meta.hdrSecret) )
         => i.args = "ok" }

\* arguments of the direct calls of getAccessToken
GatClientIds == {Null, "", "A", "B"}
GatSecrets == {Null, "", "s1"}

\* ---------------------------------------------------------------- state
VARIABLES
  req,             \* per request: position, locals, the upstream calls made
  tokenCache,      \* const tokenCache = new Map<string, TokenCache>()
  requestContext,  \* let requestContext = {}
  clock,           \* Math.floor(Date.now() / 1000)
  lastWrite,       \* per clientId, the entry of the latest tokenCache.set
  issued,          \* per token, the client_id of the exchange that got it
  last             \* the current turn of the event loop

vars == <<req, tokenCache, requestContext, clock, lastWrite, issued, last>>

NoEntry == [access_token |-> 0, expires_at |-> 0]
EmptyCtx == [clientId |-> Undefined, clientSecret |-> Undefined]
NoResp == [id |-> "", hasResult |-> FALSE, result |-> <<>>,
           hasError |-> FALSE, code |-> 0, message |-> "", status |-> 0]

NewReq ==
  [pc |-> "new",
   id |-> "",                             \* id member of the request body
   ownId |-> Null, ownSecret |-> Null,    \* credentials the request carried
   usedId |-> Null, usedSecret |-> Null,  \* credentials given to getAccessToken
   now |-> 0,                             \* const now of getAccessToken
   token |-> 0,                           \* what getAccessToken returned
   nTok |-> 0, nApi |-> 0,                \* upstream calls made so far
   nResp |-> 0,                           \* responses sent for the request
   apiToken |-> 0]                        \* Bearer token of the API call

\* One turn of the event loop: the request it worked on, what the request
\* was if the turn read it, what tokenCache.get found if the turn got that
\* far, and the response if the turn sent one.
NoLast ==
  [r |-> 0, parses |-> FALSE, id |-> "", method |-> "", hasParams |-> FALSE,
   name |-> "", args |-> "none",
   hdrId |-> Null, hdrSecret |-> Null, qId |-> Null, qSecret |-> Null,
   authed |-> FALSE, lookedUp |-> FALSE, seen |-> NoEntry, hit |-> FALSE,
   upKind |-> "", upStatus |-> 0,  \* the upstream answer the turn handles
   params |-> NoParams,            \* what the handler gave petfinderRequest
   resp |-> NoResp]

Init ==
  /\ req = [r \in Reqs |-> NewReq]
  /\ tokenCache = [c \in ClientIds |-> NoEntry]
  /\ requestContext = EmptyCtx
  /\ clock = 0
  /\ lastWrite = [c \in ClientIds |-> NoEntry]
  /\ issued = [r \in Reqs |-> Null]
  /\ last = NoLast

\* ------------------------------------------------------- the token cache
\* cleanupExpiredTokens(): delete every entry whose expires_at <= now
cleanupExpiredTokens_strict(cache, now) ==
  [c \in DOMAIN cache |->
     IF cache[c] # NoEntry /\ cache[c].expires_at < now THEN NoEntry
     ELSE cache[c]]

cleanupExpiredTokens(cache, now) ==
  [c \in DOMAIN cache |->
     IF cache[c] # NoEntry /\ cache[c].expires_at <= now THEN NoEntry
     ELSE cache[c]]

\* getAccessToken: cachedToken && cachedToken.expires_at > now + 60
CacheUsable_reversed(cached, now) ==
  cached # NoEntry /\ cached.expires_at < now + SafetyMargin

CacheUsable_inclusive(cached, now) ==
  cached # NoEntry /\ cached.expires_at >= now + SafetyMargin

CacheUsable(cached, now) ==
  cached # NoEntry /\ cached.expires_at > now + SafetyMargin

\* tokenCache.get(clientId)
CacheGet_anyEntry(cache, clientId) ==
  IF \E c \in DOMAIN cache : cache[c] # NoEntry
  THEN cache[CHOOSE c \in DOMAIN cache : cache[c] # NoEntry]
  ELSE NoEntry

CacheGet(cache, clientId) == cache[clientId]

\* getAccessToken up to its first await: the credential check, the sweep
\* and the lookup. outcome "throw": the Error of the credential check;
\* "hit": the cached token is returned; "miss": the token exchange is sent.
GetAccessTokenSync_sweepFirst(cache, now, clientId, clientSecret) ==
  IF Falsy(clientId) \/ Falsy(clientSecret)
  THEN [outcome |-> "throw", cache |-> cleanupExpiredTokens(cache, now),
        lookedUp |-> FALSE, seen |-> NoEntry]
  ELSE LET swept == cleanupExpiredTokens(cache, now)
           cachedToken == CacheGet(swept, clientId)
       IN [outcome |-> IF CacheUsable(cachedToken, now) THEN "hit" ELSE "miss",
           cache |-> swept, lookedUp |-> TRUE, seen |-> cachedToken]

GetAccessTokenSync(cache, now, clientId, clientSecret) ==
  IF Falsy(clientId) \/ Falsy(clientSecret)
  THEN [outcome |-> "throw", cache |-> cache,
        lookedUp |-> FALSE, seen |-> NoEntry]
  ELSE LET swept == cleanupExpiredTokens(cache, now)
           cachedToken == CacheGet(swept, clientId)
       IN [outcome |-> IF CacheUsable(cachedToken, now) THEN "hit" ELSE "miss",
           cache |-> swept, lookedUp |-> TRUE, seen |-> cachedToken]

\* tokenCache.set(clientId, newToken)
CacheSet_keepFirst(cache, clientId, newToken) ==
  IF cache[clientId] # NoEntry THEN cache
  ELSE [cache EXCEPT ![clientId] = newToken]

CacheSet(cache, clientId, newToken) ==
  [cache EXCEPT ![clientId] = newToken]

\* getAccessToken after a 2xx answer of the token endpoint: the new entry,
\* made from the now of the call's start, and the cache with it
getAccessTokenStore(cache, clientId, now, access_token, expires_in) ==
  LET newToken == [access_token |-> access_token,
                   expires_at |-> now + expires_in]
  IN [newToken |-> newToken, cache |-> CacheSet(cache, clientId, newToken)]

\* getAccessToken after a failed exchange: a non-2xx answer throws a
\* PetfinderAPIError with response.status and the body text, a rejected
\* fetch its own error; neither touches the cache
getAccessTokenReject_cacheFailure(cache, clientId, failure) ==
  [cache |-> [cache EXCEPT ![clientId] =
                [access_token |-> 0, expires_at |-> SafetyMargin]],
   status |-> failure,
   message |-> IF failure = NetworkError THEN "fetch failed"
               ELSE "OAuth token request failed"]

getAccessTokenReject(cache, clientId, failure) ==
  [cache |-> cache, status |-> failure,
   message |-> IF failure = NetworkError THEN "fetch failed"
               ELSE "OAuth token request failed"]

\* ------------------------------------------------------ error envelopes
mapHTTPStatusToJSONRPCError_rateAsInternal(status) ==
  CASE status = 400 -> -32602
    [] status = 401 -> -32001
    [] status = 403 -> -32002
    [] status = 404 -> -32003
    [] OTHER -> -32603

mapHTTPStatusToJSONRPCError(status) ==
  CASE status = 400 -> -32602
    [] status = 401 -> -32001
    [] status = 403 -> -32002
    [] status = 404 -> -32003
    [] status = 429 -> -32004
    [] OTHER -> -32603

getErrorMessage(status) ==
  CASE status = 400 -> "Invalid request parameters"
    [] status = 401 -> "Authentication failed - invalid credentials"
    [] status = 403 -> "Access denied - insufficient permissions"
    [] status = 404 -> "Resource not found"
    [] status = 429 -> "Rate limit exceeded"
    [] status = 500 -> "Internal server error"
    [] status = 502 -> "Bad gateway"
    [] status = 503 -> "Service unavailable"
    [] status = 504 -> "Gateway timeout"
    [] OTHER -> "Unknown error"

\* createErrorResponse: status > 0 stands for a PetfinderAPIError with that
\* status (error.data.status keeps it), status = 0 for any other Error with
\* the given message
createErrorResponse_withResult(id, message, status, fallbackCode) ==
  IF status > 0
  THEN [id |-> id, hasResult |-> TRUE, result |-> <<"content">>,
        hasError |-> TRUE,
        code |-> mapHTTPStatusToJSONRPCError(status),
        message |-> getErrorMessage(status), status |-> status]
  ELSE [id |-> id, hasResult |-> FALSE, result |-> <<>>,
        hasError |-> TRUE, code |-> fallbackCode,
        message |-> message, status |-> 0]

createErrorResponse(id, message, status, fallbackCode) ==
  IF status > 0
  THEN [id |-> id, hasResult |-> FALSE, result |-> <<>>,
        hasError |-> TRUE,
        code |-> mapHTTPStatusToJSONRPCError(status),
        message |-> getErrorMessage(status), status |-> status]
  ELSE [id |-> id, hasResult |-> FALSE, result |-> <<>>,
        hasError |-> TRUE, code |-> fallbackCode,
        message |-> message, status |-> 0]

\* the error envelopes written out in handleMCPRequest
ErrorResp(id, code, message) ==
  [id |-> id, hasResult |-> FALSE, result |-> <<>>,
   hasError |-> TRUE, code |-> code, message |-> message, status |-> 0]

\* the result envelopes; result tells what the result member holds
ResultResp(id, result) ==
  [id |-> id, hasResult |-> TRUE, result |-> result,
   hasError |-> FALSE, code |-> 0, message |-> "", status |-> 0]

\* id: request.id || 'unknown' of the default branch; 0, "", null and false
\* are falsy, as is an id that is not there
IdOrUnknown(id) ==
  IF id \in {"0", "\"\"", "null", "false", Undefined} THEN UnknownId ELSE id

\* The response is sent and the locals of the request are gone; what stays
\* is the record of the upstream calls made for it.
Done_staysOpen(rec) ==
  IF rec.pc \in {"tokenWait", "apiWait"} /\ rec.nResp < 2
  THEN [rec EXCEPT !.nResp = @ + 1]
  ELSE [NewReq EXCEPT !.pc = "done", !.token = rec.token, !.nTok = rec.nTok,
                      !.nApi = rec.nApi, !.apiToken = rec.apiToken,
                      !.nResp = rec.nResp + 1]

Done(rec) ==
  [NewReq EXCEPT !.pc = "done", !.token = rec.token, !.nTok = rec.nTok,
                 !.nApi = rec.nApi, !.apiToken = rec.apiToken,
                 !.nResp = rec.nResp + 1]

\* What one synchronous run leaves behind: the request's record, the
\* response if one is sent, the cache and the context, what tokenCache.get
\* found if the run got that far, and the error if one is being thrown.
Out_clearsCache(rec, resp, cache, ctx) ==
  [req |-> rec, resp |-> resp, cache |-> [c \in DOMAIN cache |-> NoEntry],
   ctx |-> ctx,
   authed |-> FALSE, lookedUp |-> FALSE, seen |-> NoEntry, hit |-> FALSE,
   params |-> NoParams, thrown |-> ""]

Out(rec, resp, cache, ctx) ==
  [req |-> rec, resp |-> resp, cache |-> cache, ctx |-> ctx,
   authed |-> FALSE, lookedUp |-> FALSE, seen |-> NoEntry, hit |-> FALSE,
   params |-> NoParams, thrown |-> ""]

\* an error thrown and not caught so far
Throw(rec, error, cache, ctx) ==
  [Out(rec, NoResp, cache, ctx) EXCEPT !.thrown = error]

\* catch (error) { return createErrorResponse(request.id!, error) } of the
\* tools/call branch: the request ends with the error envelope
CatchToolError_retry(rec, message, status) ==
  IF rec.pc = "tokenWait" /\ rec.nTok < 2
  THEN [req |-> [rec EXCEPT !.nTok = @ + 1], resp |-> NoResp]
  ELSE [req |-> Done(rec),
        resp |-> createErrorResponse(rec.id, message, status, -32603)]

CatchToolError(rec, message, status) ==
  [req |-> Done(rec),
   resp |-> createErrorResponse(rec.id, message, status, -32603)]

\* ------------------------------------------------------------- dispatch
\* allTools[name]: a property read on an object literal. It finds the seven
\* handlers, and for a name every object inherits (toString) the inherited
\* function; for any other name it is undefined.
allTools(name) ==
  IF name \in ToolNames THEN name
  ELSE IF name = "toString" THEN "Object.prototype.toString"
  ELSE Undefined

\* extractCredentialsFromHeaders reads the two headers, nothing else
extractCredentialsFromHeaders(meta) ==
  [clientId |-> meta.hdrId, clientSecret |-> meta.hdrSecret]

\* if (!clientId || !clientSecret)
AuthMissing(clientId, clientSecret) ==
  Falsy(clientId) \/ Falsy(clientSecret)

\* requestContext = { clientId, clientSecret }
SetRequestContext_ifEmpty(ctx, clientId, clientSecret) ==
  IF ctx # EmptyCtx THEN ctx
  ELSE [clientId |-> clientId, clientSecret |-> clientSecret]

SetRequestContext_afterAwait(ctx, clientId, clientSecret) == ctx

SetRequestContext(ctx, clientId, clientSecret) ==
  [clientId |-> clientId, clientSecret |-> clientSecret]

\* finally { requestContext = {} }; ok tells whether the try block returned
ClearRequestContext_onSuccess(ctx, ok) ==
  IF ok THEN EmptyCtx ELSE ctx

ClearRequestContext(ctx, ok) == EmptyCtx

\* What a handler does before it calls petfinderRequest.
\*   searchPets, searchOrgs: spread the defaults and the input, then
\*     schema.parse, which throws a ZodError on a rejected input;
\*   getPet, getOrg, getAnimalTypeDetails, listAnimalBreeds: no parse; they
\*     read a field of the input to build the path, a TypeError on undefined;
\*   listAnimalTypes: ignores its input;
\*   Object.prototype.toString: returns a string, calls nothing.
HandlerSync(handler, args) ==
  CASE handler \in {"pets.search", "organizations.search"} ->
         IF args = "bad" THEN "ZodError" ELSE "request"
    [] handler \in {"pets.get", "organizations.get", "types.get", "breeds.list"} ->
         IF args = "none" THEN "TypeError" ELSE "request"
    [] handler = "types.list" -> "request"
    [] OTHER -> "value"

\* { ...defaults, ...input }: the members of the input override the defaults
SpreadDefaults_defaultsWin(defaults, input) ==
  [f \in SearchFields |->
     IF defaults[f] # Undefined THEN defaults[f] ELSE input[f]]

SpreadDefaults(defaults, input) ==
  [f \in SearchFields |->
     IF input[f] # Undefined THEN input[f] ELSE defaults[f]]

\* the defaults searchPets and searchOrgs spread under the input
searchPetsDefaults ==
  [status |-> "adoptable", sort |-> "recent", page |-> "1", limit |-> "20"]

searchOrgsDefaults ==
  [status |-> Undefined, sort |-> Undefined, page |-> "1", limit |-> "20"]

\* animalSearchSchema.parse of an accepted input: status, sort, page and
\* limit are optional with a default
animalSearchSchemaParse(o) ==
  [f \in SearchFields |->
     IF o[f] = Undefined THEN searchPetsDefaults[f] ELSE o[f]]

\* organizationSearchSchema.parse of an accepted input: the schema has no
\* status member and z.object drops the members it does not know; sort is
\* optional without a default; page and limit have defaults
organizationSearchSchemaParse(o) ==
  [status |-> Undefined,
   sort |-> o.sort,
   page |-> IF o.page = Undefined THEN "1" ELSE o.page,
   limit |-> IF o.limit = Undefined THEN "20" ELSE o.limit]

\* the params a handler passes to petfinderRequest; the handlers that are
\* not searches pass a path and no params
HandlerParams(handler, args) ==
  CASE handler = "pets.search" ->
         animalSearchSchemaParse(SpreadDefaults(searchPetsDefaults, ArgObject(args)))
    [] handler = "organizations.search" ->
         organizationSearchSchemaParse(SpreadDefaults(searchOrgsDefaults, ArgObject(args)))
    [] OTHER -> NoParams

\* petfinderRequest after a failed GET: a non-2xx answer throws a
\* PetfinderAPIError with response.status and the body, a rejected fetch its
\* own error; the token that was sent stays in the cache
petfinderRequestReject_invalidate(cache, clientId, failure) ==
  [cache |-> IF failure = 401 THEN [cache EXCEPT ![clientId] = NoEntry]
             ELSE cache,
   status |-> failure,
   message |-> IF failure = NetworkError THEN "fetch failed"
               ELSE "Petfinder API error"]

petfinderRequestReject(cache, clientId, failure) ==
  [cache |-> cache, status |-> failure,
   message |-> IF failure = NetworkError THEN "fetch failed"
               ELSE "Petfinder API error"]

\* petfinderRequest up to its first network wait; what it throws is caught
\* in the tools/call branch
petfinderRequest(rec, cache, ctx, now) ==
  LET clientId == ctx.clientId
      clientSecret == ctx.clientSecret
  IN IF Falsy(clientId) \/ Falsy(clientSecret)
     THEN LET c == CatchToolError(rec, "Request context missing credentials", 0)
          IN Out(c.req, c.resp, cache, ClearRequestContext(ctx, FALSE))
     ELSE LET g == GetAccessTokenSync(cache, now, clientId, clientSecret)
              rec1 == [rec EXCEPT !.usedId = clientId,
                                  !.usedSecret = clientSecret, !.now = now]
          IN CASE g.outcome = "throw" ->
                    LET c == CatchToolError(rec1, "Missing Petfinder credentials", 0)
                    IN Out(c.req, c.resp, g.cache, ClearRequestContext(ctx, FALSE))
               [] g.outcome = "hit" ->
                    [Out([rec1 EXCEPT !.pc = "apiWait",
                                      !.token = g.seen.access_token,
                                      !.nApi = @ + 1,
                                      !.apiToken = g.seen.access_token],
                         NoResp, g.cache, ctx)
                       EXCEPT !.lookedUp = g.lookedUp, !.seen = g.seen,
                              !.hit = TRUE]
               [] OTHER ->
                    [Out([rec1 EXCEPT !.pc = "tokenWait", !.nTok = @ + 1],
                         NoResp, g.cache, ctx)
                       EXCEPT !.lookedUp = g.lookedUp, !.seen = g.seen]

\* case 'tools/call' of handleMCPRequest. Destructuring request.params
\* when the request has none throws a TypeError, outside the try block.
ToolsCall(rec, hasParams, name, args, meta, cache, ctx, now) ==
  IF ~hasParams
  THEN Throw(rec, "TypeError", cache, ctx)
  ELSE
  LET handler == allTools(name)
      creds == extractCredentialsFromHeaders(meta)
  IN IF handler = Undefined
     THEN Out(Done(rec),
              ErrorResp(rec.id, -32601, "Tool " \o name \o " not found"),
              cache, ctx)
     ELSE IF AuthMissing(creds.clientId, creds.clientSecret)
     THEN Out(Done(rec), ErrorResp(rec.id, -32001, "Authentication required"),
              cache, ctx)
     ELSE
     LET ctx1 == SetRequestContext(ctx, creds.clientId, creds.clientSecret)
         rec1 == [rec EXCEPT !.ownId = creds.clientId,
                             !.ownSecret = creds.clientSecret]
         h == HandlerSync(handler, args)
         out == CASE h = "value" ->
                       Out(Done(rec1), ResultResp(rec1.id, <<"content">>), cache,
                           ClearRequestContext(ctx1, TRUE))
                  [] h = "request" -> petfinderRequest(rec1, cache, ctx1, now)
                  [] OTHER ->
                       LET c == CatchToolError(rec1, h, 0)
                       IN Out(c.req, c.resp, cache,
                              ClearRequestContext(ctx1, FALSE))
     IN [out EXCEPT !.authed = TRUE,
                    !.params = IF h = "request" THEN HandlerParams(handler, args)
                               ELSE NoParams]

handleMCPRequest_ackNotification(rec, method, hasParams, name, args, meta, cache, ctx, now) ==
  CASE method = "initialize" ->
         Out(Done(rec), ResultResp(rec.id, <<"serverInfo">>), cache, ctx)
    [] method = "tools/list" ->
         Out(Done(rec), ResultResp(rec.id, tools), cache, ctx)
    [] method = "tools/call" ->
         ToolsCall(rec, hasParams, name, args, meta, cache, ctx, now)
    [] method = "notifications/initialized" ->
         Out(Done(rec), ResultResp(rec.id, <<>>), cache, ctx)
    [] OTHER ->
         Out(Done(rec),
             ErrorResp(IdOrUnknown(rec.id), -32601,
                       "Method " \o method \o " not found"),
             cache, ctx)

handleMCPRequest(rec, method, hasParams, name, args, meta, cache, ctx, now) ==
  CASE method = "initialize" ->
         Out(Done(rec), ResultResp(rec.id, <<"serverInfo">>), cache, ctx)
    [] method = "tools/list" ->
         Out(Done(rec), ResultResp(rec.id, tools), cache, ctx)
    [] method = "tools/call" ->
         ToolsCall(rec, hasParams, name, args, meta, cache, ctx, now)
    [] OTHER ->
         Out(Done(rec),
             ErrorResp(IdOrUnknown(rec.id), -32601,
                       "Method " \o method \o " not found"),
             cache, ctx)

\* catch (error) of fetch(): whatever was thrown on the way becomes a
\* parse-error envelope with the id 'unknown'
FetchCatch_rethrow(out) ==
  IF out.thrown = "" THEN out
  ELSE [out EXCEPT !.req = [Done(out.req) EXCEPT !.pc = "fault"],
                   !.thrown = ""]

FetchCatch(out) ==
  IF out.thrown = "" THEN out
  ELSE [out EXCEPT !.req = Done(out.req),
                   !.resp = createErrorResponse(UnknownId, out.thrown, 0, -32700),
                   !.thrown = ""]

\* the POST /mcp branch of fetch(): JSON.parse, then handleMCPRequest, all
\* of it inside the try block
fetchHandler_resolvesMethod(rec, parses, method, hasParams, name, args, meta, cache, ctx, now) ==
  FetchCatch(handleMCPRequest(rec, method, hasParams, name, args, meta,
                              cache, ctx, now))

fetchHandler(rec, parses, method, hasParams, name, args, meta, cache, ctx, now) ==
  FetchCatch(
    IF ~parses
    THEN Throw(rec, "SyntaxError", cache, ctx)
    ELSE handleMCPRequest(rec, method, hasParams, name, args, meta,
                          cache, ctx, now))

\* The turn in which request r gets its response after a network wait.
Emit(r, resp) == [NoLast EXCEPT !.r = r, !.authed = TRUE, !.resp = resp]

\* -------------------------------------------------------------- actions
\* A request arrives and runs to its first network wait or to its response.
Receive(r) ==
  /\ last = NoLast
  /\ req[r].pc = "new"
  /\ \A q \in 1..(r - 1) : req[q].pc # "new"
  /\ \E i \in RequestInputs :
       LET rec == IF i.parses THEN [req[r] EXCEPT !.id = i.id] ELSE req[r]
           out == fetchHandler(rec, i.parses, i.method, i.hasParams, i.name,
                               i.args, i.meta, tokenCache, requestContext, clock)
       IN /\ req' = [req EXCEPT ![r] = out.req]
          /\ tokenCache' = out.cache
          /\ requestContext' = out.ctx
          /\ last' = [NoLast EXCEPT
                         !.r = r, !.parses = i.parses, !.id = i.id,
                         !.method = i.method,
                         !.hasParams = i.hasParams, !.name = i.name,
                         !.args = i.args,
                         !.hdrId = i.meta.hdrId, !.hdrSecret = i.meta.hdrSecret,
                         !.qId = i.meta.qId, !.qSecret = i.meta.qSecret,
                         !.authed = out.authed, !.lookedUp = out.lookedUp,
                         !.seen = out.seen, !.hit = out.hit,
                         !.params = out.params, !.resp = out.resp]
  /\ UNCHANGED <<clock, lastWrite, issued>>

\* The token endpoint answers 2xx: getAccessToken stores the new token and
\* returns it, petfinderRequest sends the GET with it. Every exchange
\* yields a token of its own, named after the request that asked for it and
\* issued to the client_id the exchange was sent with.
TokenOk(r) ==
  /\ last = NoLast
  /\ req[r].pc = "tokenWait"
  /\ \E expires_in \in ExpiresInSet :
       LET st == getAccessTokenStore(tokenCache, req[r].usedId, req[r].now,
                                     r, expires_in)
       IN /\ tokenCache' = st.cache
          /\ lastWrite' = [lastWrite EXCEPT ![req[r].usedId] = st.newToken]
          /\ req' = [req EXCEPT ![r].pc = "apiWait",
                                ![r].token = st.newToken.access_token,
                                ![r].nApi = @ + 1,
                                ![r].apiToken = st.newToken.access_token]
  /\ issued' = [issued EXCEPT ![r] = req[r].usedId]
  /\ last' = [NoLast EXCEPT !.r = r, !.authed = TRUE,
                            !.upKind = "token", !.upStatus = 200]
  /\ UNCHANGED <<requestContext, clock>>

\* The token exchange fails: the token endpoint answers non-2xx and
\* getAccessToken throws a PetfinderAPIError with the status, or fetch
\* rejects. The error is caught in handleMCPRequest.
TokenFail(r) ==
  /\ last = NoLast
  /\ req[r].pc = "tokenWait"
  /\ \E f \in Failures :
       LET g == getAccessTokenReject(tokenCache, req[r].usedId, f)
           c == CatchToolError(req[r], g.message, g.status)
       IN /\ req' = [req EXCEPT ![r] = c.req]
          /\ tokenCache' = g.cache
          /\ last' = [Emit(r, c.resp) EXCEPT !.upKind = "token", !.upStatus = f]
  /\ requestContext' = ClearRequestContext(requestContext, FALSE)
  /\ UNCHANGED <<clock, lastWrite, issued>>

\* The API answers 2xx: the handler wraps the JSON in a content result.
ApiOk(r) ==
  /\ last = NoLast
  /\ req[r].pc = "apiWait"
  /\ last' = [Emit(r, ResultResp(req[r].id, <<"content">>))
                EXCEPT !.upKind = "api", !.upStatus = 200]
  /\ req' = [req EXCEPT ![r] = Done(@)]
  /\ requestContext' = ClearRequestContext(requestContext, TRUE)
  /\ UNCHANGED <<tokenCache, clock, lastWrite, issued>>

\* The API call fails: a non-2xx answer, or fetch rejects.
ApiFail(r) ==
  /\ last = NoLast
  /\ req[r].pc = "apiWait"
  /\ \E f \in Failures :
       LET g == petfinderRequestReject(tokenCache, req[r].usedId, f)
           c == CatchToolError(req[r], g.message, g.status)
       IN /\ req' = [req EXCEPT ![r] = c.req]
          /\ tokenCache' = g.cache
          /\ last' = [Emit(r, c.resp) EXCEPT !.upKind = "api", !.upStatus = f]
  /\ requestContext' = ClearRequestContext(requestContext, FALSE)
  /\ UNCHANGED <<clock, lastWrite, issued>>

\* Time passes. Only a request that is still to come reads the clock.
Tick ==
  /\ last = NoLast
  /\ \E r \in Reqs : req[r].pc = "new"
  /\ clock + TickStep <= MaxTime
  /\ clock' = clock + TickStep
  /\ last' = NoLast
  /\ UNCHANGED <<req, tokenCache, requestContext, lastWrite, issued>>

\* getAccessToken has returned for a request that waits for the API: its
\* const now is out of scope
Settle(rec) ==
  IF rec.pc = "apiWait" THEN [rec EXCEPT !.now = 0] ELSE rec

\* The turn ends; its locals are gone and the event loop takes the next
\* event.
TurnEnd ==
  /\ last # NoLast
  /\ last' = NoLast
  /\ req' = [r \in Reqs |-> Settle(req[r])]
  /\ UNCHANGED <<tokenCache, requestContext, clock, lastWrite, issued>>

Next ==
  \/ \E r \in Reqs : Receive(r)
  \/ \E r \in Reqs : TokenOk(r)
  \/ \E r \in Reqs : TokenFail(r)
  \/ \E r \in Reqs : ApiOk(r)
  \/ \E r \in Reqs : ApiFail(r)
  \/ Tick
  \/ TurnEnd

Spec == Init /\ [][Next]_vars

\* Every upstream call returns or fails in the end, and the event loop runs
\* the continuation of an answered call and ends the turn it is in: as long
\* as a call is pending or a turn is running, one of these steps is taken.
Progress ==
  \/ \E r \in Reqs : TokenOk(r) \/ TokenFail(r) \/ ApiOk(r) \/ ApiFail(r)
  \/ TurnEnd

Fairness == WF_vars(Progress)

SpecLive == Init /\ [][Next]_vars /\ Fairness

\* ---------------------------------------- getAccessToken called directly
\* getAccessToken(clientId, clientSecret) with any arguments, up to its
\* first await. The record keeps the arguments of the call.
GatCall(r) ==
  /\ last = NoLast
  /\ req[r].pc = "new"
  /\ \A q \in 1..(r - 1) : req[q].pc # "new"
  /\ \E clientId \in GatClientIds, clientSecret \in GatSecrets :
       LET g == GetAccessTokenSync(tokenCache, clock, clientId, clientSecret)
           rec == [req[r] EXCEPT !.usedId = clientId,
                                 !.usedSecret = clientSecret, !.now = clock]
           turn == [NoLast EXCEPT !.r = r, !.method = "getAccessToken",
                                  !.lookedUp = g.lookedUp, !.seen = g.seen]
       IN /\ tokenCache' = g.cache
          /\ CASE g.outcome = "throw" ->
                    /\ req' = [req EXCEPT ![r] = [rec EXCEPT !.pc = "done"]]
                    /\ last' = [turn EXCEPT !.resp =
                           createErrorResponse("", "Missing Petfinder credentials", 0, -32603)]
               [] g.outcome = "hit" ->
                    /\ req' = [req EXCEPT ![r] =
                           [rec EXCEPT !.pc = "done", !.token = g.seen.access_token]]
                    /\ last' = [turn EXCEPT !.hit = TRUE]
               [] OTHER ->
                    /\ req' = [req EXCEPT ![r] =
                           [rec EXCEPT !.pc = "tokenWait", !.nTok = @ + 1]]
                    /\ last' = turn
  /\ UNCHANGED <<requestContext, clock, lastWrite, issued>>

\* the token endpoint answers 2xx: store and return the token
GatOk(r) ==
  /\ last = NoLast
  /\ req[r].pc = "tokenWait"
  /\ \E expires_in \in ExpiresInSet :
       LET st == getAccessTokenStore(tokenCache, req[r].usedId, req[r].now,
                                     r, expires_in)
       IN /\ tokenCache' = st.cache
          /\ lastWrite' = [lastWrite EXCEPT ![req[r].usedId] = st.newToken]
          /\ req' = [req EXCEPT ![r].pc = "done",
                                ![r].token = st.newToken.access_token]
  /\ issued' = [issued EXCEPT ![r] = req[r].usedId]
  /\ last' = [NoLast EXCEPT !.r = r, !.upKind = "token", !.upStatus = 200]
  /\ UNCHANGED <<requestContext, clock>>

\* the exchange fails: getAccessToken throws
GatFail(r) ==
  /\ last = NoLast
  /\ req[r].pc = "tokenWait"
  /\ \E f \in Failures :
       LET g == getAccessTokenReject(tokenCache, req[r].usedId, f)
       IN /\ tokenCache' = g.cache
          /\ last' = [NoLast EXCEPT
                        !.r = r, !.upKind = "token", !.upStatus = f,
                        !.resp = createErrorResponse("", g.message, g.status, -32603)]
  /\ req' = [req EXCEPT ![r].pc = "done"]
  /\ UNCHANGED <<requestContext, clock, lastWrite, issued>>

NextTok ==
  \/ \E r \in Reqs : GatCall(r)
  \/ \E r \in Reqs : GatOk(r)
  \/ \E r \in Reqs : GatFail(r)
  \/ Tick
  \/ TurnEnd

SpecTok == Init /\ [][NextTok]_vars

\* ------------------------------------------------------------ properties
InFlight(r) == req[r].pc \in {"tokenWait", "apiWait"}

\* the turn read a tools/call request
IsToolsCall == last.r # 0 /\ last.parses /\ last.method = "tools/call"

\* the request of the turn made no upstream call
NoUpstream == req[last.r].nTok = 0 /\ req[last.r].nApi = 0

\* C1: whatever requests are in flight together, the credentials a request
\* hands to getAccessToken (sent in its token exchange, and key of the
\* token its API call carries) are the ones the request itself came with.
\* Every upstream call is sent by a step that leaves its request in flight,
\* so the calls are all seen here.
C1_OwnCredentials ==
  \A r \in Reqs :
    (InFlight(r) /\ (req[r].nTok > 0 \/ req[r].nApi > 0)) =>
      /\ req[r].usedId = req[r].ownId
      /\ req[r].usedSecret = req[r].ownSecret
      /\ req[r].nApi > 0 => req[r].apiToken = req[r].token

C1_Witness ==
  \E r1, r2 \in Reqs :
    /\ r1 # r2 /\ InFlight(r1) /\ InFlight(r2)
    /\ req[r1].nTok = 1 /\ req[r2].nTok = 1
    /\ req[r1].usedId # req[r2].usedId

\* C2: when a getAccessToken call finds, still usable (expires_at > now +
\* 60), the entry that an earlier call for the same clientId stored after
\* its exchange, it makes no exchange of its own - the two calls make one
\* exchange in total - and it returns the token the earlier call returned.
C2_SecondCallReusesToken ==
  \A r1 \in Reqs :
    ( /\ last.r # 0 /\ r1 # last.r /\ last.lookedUp
      /\ req[r1].nTok = 1 /\ req[r1].token = r1
      /\ last.seen.access_token = r1
      /\ last.seen.expires_at > req[last.r].now + SafetyMargin )
    => /\ req[last.r].nTok = 0
       /\ req[r1].nTok + req[last.r].nTok = 1
       /\ req[last.r].token = req[r1].token

C2_Witness ==
  \E r1 \in Reqs :
    /\ last.r # 0 /\ r1 # last.r /\ last.lookedUp /\ last.hit
    /\ req[r1].nTok = 1 /\ req[r1].token = r1
    /\ last.seen.access_token = r1
    /\ req[last.r].token = r1 /\ req[last.r].nTok = 0

\* C3: a cached token is returned without an exchange only if
\* now < expires_at - 60; a lookup that does not find such an entry sends a
\* token exchange; and when the exchange succeeds the entry of the clientId
\* is the new token with expires_at = now + expires_in.
C3_HitOnlyInsideMargin ==
  last.hit =>
    /\ last.seen # NoEntry
    /\ req[last.r].now < last.seen.expires_at - SafetyMargin
    /\ req[last.r].nTok = 0

C3_StaleEntryExchanges ==
  ( /\ last.lookedUp
    /\ ~(last.seen # NoEntry /\ req[last.r].now < last.seen.expires_at - SafetyMargin) )
  => req[last.r].pc = "tokenWait" /\ req[last.r].nTok = 1

C3_SuccessReplaces ==
  \A r \in Reqs :
    (req[r].pc = "tokenWait" /\ req'[r].pc # "tokenWait" /\ req'[r].token # 0) =>
      \E e \in ExpiresInSet :
        tokenCache'[req[r].usedId] =
          [access_token |-> req'[r].token, expires_at |-> req[r].now + e]

C3_ExpiryMarginAndReplacement ==
  /\ [](C3_HitOnlyInsideMargin /\ C3_StaleEntryExchanges)
  /\ [][C3_SuccessReplaces]_vars

\* an entry is there, past its margin, and the call sends an exchange
C3_Witness ==
  /\ last.r # 0 /\ last.lookedUp /\ ~last.hit
  /\ last.seen # NoEntry
  /\ last.seen.expires_at - SafetyMargin <= req[last.r].now
  /\ req[last.r].pc = "tokenWait"

\* C4 (as claimed): every tools/call in which the client id or the client
\* secret is absent or empty is answered with code -32001 and makes no
\* upstream call.
C4_MissingCredentialsAlwaysAuthError ==
  (IsToolsCall /\ (Falsy(last.hdrId) \/ Falsy(last.hdrSecret))) =>
    /\ last.resp.hasError /\ last.resp.code = -32001
    /\ NoUpstream

\* C5 (as claimed): a tools/call whose tool name is not one of the seven
\* registered tools is answered with code -32601 and makes no upstream call.
C5_UnregisteredToolNotFound ==
  (IsToolsCall /\ last.hasParams /\ last.name \notin ToolNames) =>
    /\ last.resp.hasError /\ last.resp.code = -32601
    /\ NoUpstream

\* C6 (as claimed): a tools/call with valid credentials for one of the
\* seven tools, whose arguments the tool's schema rejects, fails with a
\* validation error and makes no upstream call.
C6_RejectedArgumentsFailValidation ==
  ( /\ IsToolsCall /\ last.hasParams /\ last.name \in ToolNames
    /\ ~Falsy(last.hdrId) /\ ~Falsy(last.hdrSecret)
    /\ last.args = "bad" )
  => /\ last.resp.hasError /\ last.resp.message = "ZodError"
     /\ NoUpstream

\* C7 (as claimed): a tools/call that carries valid credentials in the query
\* parameters client-id and client-secret, and no credential header, passes
\* the authentication check and reaches the tool handler.
C7_QueryCredentialsAuthenticate ==
  ( /\ IsToolsCall /\ last.hasParams /\ last.name \in ToolNames
    /\ last.hdrId = Null /\ last.hdrSecret = Null
    /\ ~Falsy(last.qId) /\ ~Falsy(last.qSecret) )
  => last.authed

\* C8: the entry the cache holds for a clientId is never an earlier write:
\* when an exchange completes, the entry is the pair that exchange stored,
\* and as long as an entry is there it is the pair stored last. (Two
\* requests that both missed and both exchanged: C8_Witness.)
C8_StoreWins ==
  \A r \in Reqs :
    (req[r].pc = "tokenWait" /\ req'[r].pc # "tokenWait" /\ req'[r].token # 0) =>
      /\ tokenCache'[req[r].usedId] = lastWrite'[req[r].usedId]
      /\ tokenCache'[req[r].usedId].access_token = req'[r].token

C8_EntryIsLastWrite ==
  \A c \in ClientIds :
    tokenCache[c] # NoEntry => tokenCache[c] = lastWrite[c]

C8_LastWriteWins ==
  /\ [][C8_StoreWins]_vars
  /\ []C8_EntryIsLastWrite

\* r2 came after r1 and stored before r1 did: both missed, both exchanged,
\* both have stored, and the entry is the one r1 stored last
C8_Witness ==
  \E r1, r2 \in Reqs :
    /\ r1 < r2
    /\ req[r1].pc = "apiWait" /\ req[r2].pc = "apiWait"
    /\ req[r1].usedId = req[r2].usedId
    /\ req[r1].nTok = 1 /\ req[r2].nTok = 1
    /\ req[r1].token = r1 /\ req[r2].token = r2
    /\ tokenCache[req[r1].usedId].access_token = r1
    /\ tokenCache[req[r1].usedId] = lastWrite[req[r1].usedId]

\* C9: the turn in which an authenticated tools/call sends its response
\* leaves the credential context empty, whether the response is a result,
\* a validation failure or an upstream failure; and whenever no tools/call
\* is in flight the context holds no credentials.
C9_ResponseClearsContext ==
  \A r \in Reqs :
    (req[r].pc # "done" /\ req'[r].pc = "done" /\ last'.authed) =>
      requestContext' = EmptyCtx

C9_IdleContextEmpty ==
  (\A r \in Reqs : ~InFlight(r)) => requestContext = EmptyCtx

C9_ContextCleared ==
  /\ [][C9_ResponseClearsContext]_vars
  /\ []C9_IdleContextEmpty

\* an upstream failure is answered while nothing else is in flight
C9_Witness ==
  /\ last.r # 0 /\ last.authed /\ last.resp.hasError /\ last.resp.status > 0
  /\ req[last.r].pc = "done"
  /\ \A r \in Reqs : ~InFlight(r)
  /\ requestContext = EmptyCtx

\* C10: getAccessToken called with an empty or absent clientId or
\* clientSecret throws at once: no token exchange, no lookup, and the cache
\* is as it was, expired entries included.
C10_Step ==
  \A r \in Reqs :
    ( /\ req[r].pc = "new" /\ req'[r].pc # "new"
      /\ (Falsy(req'[r].usedId) \/ Falsy(req'[r].usedSecret)) )
    => /\ tokenCache' = tokenCache
       /\ req'[r].pc = "done" /\ req'[r].nTok = 0 /\ req'[r].token = 0
       /\ ~last'.lookedUp
       /\ last'.resp.hasError

C10_EmptyCredentialsThrowFirst == [][C10_Step]_vars

\* the failed call leaves an expired entry in the cache
C10_Witness ==
  /\ last.r # 0 /\ last.method = "getAccessToken"
  /\ Falsy(req[last.r].usedId) \/ Falsy(req[last.r].usedSecret)
  /\ req[last.r].pc = "done" /\ last.resp.hasError
  /\ \E c \in ClientIds :
       tokenCache[c] # NoEntry /\ tokenCache[c].expires_at <= clock

\* the turn is the one in which its request arrived
IsReceive == last.r # 0 /\ last.upKind = ""

\* the turn sent the response of its request
Responded == last.r # 0 /\ req[last.r].pc = "done"

\* C11: when the token endpoint answers an exchange with a non-2xx status,
\* the request fails with the upstream error of that status (the envelope's
\* error.data.status), the cache entry of the clientId is what it was - the
\* whole cache is - and the request has made no API call.
C11_Step ==
  \A r \in Reqs :
    ( /\ req[r].pc = "tokenWait" /\ last'.r = r
      /\ last'.upKind = "token" /\ last'.upStatus \in Statuses )
    => /\ last'.resp.hasError /\ ~last'.resp.hasResult
       /\ last'.resp.status = last'.upStatus
       /\ tokenCache'[req[r].usedId] = tokenCache[req[r].usedId]
       /\ tokenCache' = tokenCache
       /\ req'[r].pc = "done" /\ req'[r].nApi = 0 /\ req'[r].token = 0

C11_TokenEndpointFailure == [][C11_Step]_vars

C11_Witness ==
  /\ last.upKind = "token" /\ last.upStatus = 403
  /\ last.resp.hasError /\ last.resp.status = 403
  /\ req[last.r].pc = "done" /\ req[last.r].nTok = 1 /\ req[last.r].nApi = 0

\* C12: a getAccessToken call with non-empty credentials sweeps the whole
\* cache before its lookup: every entry, of any clientId, with
\* expires_at <= now is gone when tokenCache.get runs, every entry with
\* expires_at > now is as it was, and the lookup reads the swept cache.
C12_Step ==
  last'.lookedUp =>
    /\ \A c \in ClientIds :
         tokenCache'[c] =
           IF tokenCache[c] # NoEntry /\ tokenCache[c].expires_at <= clock
           THEN NoEntry ELSE tokenCache[c]
    /\ last'.seen = tokenCache'[req'[last'.r].usedId]

C12_NothingExpiredAtLookup ==
  last.lookedUp =>
    \A c \in ClientIds :
      tokenCache[c] = NoEntry \/ tokenCache[c].expires_at > req[last.r].now

C12_SweepBeforeLookup ==
  /\ [][C12_Step]_vars
  /\ []C12_NothingExpiredAtLookup

\* the lookup for one clientId has swept the expired entry of another
C12_Witness ==
  /\ last.lookedUp
  /\ \E c \in ClientIds :
       /\ c # req[last.r].usedId
       /\ lastWrite[c] # NoEntry
       /\ lastWrite[c].expires_at <= req[last.r].now
       /\ tokenCache[c] = NoEntry

\* C13: a failed upstream call - token exchange or API call, the code makes
\* no difference between the endpoints - with HTTP status s is answered
\* with code -32602 for 400, -32001 for 401, -32002 for 403, -32003 for
\* 404, -32004 for 429 and -32603 for any other status.
C13_StatusToCode ==
  (last.upKind \in {"token", "api"} /\ last.upStatus \in Statuses) =>
    /\ last.resp.hasError
    /\ last.resp.code =
         CASE last.upStatus = 400 -> -32602
           [] last.upStatus = 401 -> -32001
           [] last.upStatus = 403 -> -32002
           [] last.upStatus = 404 -> -32003
           [] last.upStatus = 429 -> -32004
           [] OTHER -> -32603

\* the API call of a request is answered 429
C13_Witness ==
  /\ last.upKind = "api" /\ last.upStatus = 429
  /\ last.resp.hasError /\ last.resp.code = -32004

\* C14: every envelope sent - for initialize, tools/list, tools/call, an
\* unknown method or a body that does not parse - has a result or an error
\* and never both.
C14_ResultXorError ==
  Responded =>
    /\ last.resp.hasResult \/ last.resp.hasError
    /\ ~(last.resp.hasResult /\ last.resp.hasError)

\* an upstream failure is answered with an error and no result
C14_Witness ==
  /\ Responded /\ last.upKind = "api" /\ last.upStatus = 500
  /\ last.resp.hasError /\ ~last.resp.hasResult

\* C15: no request ends as an unhandled fault: whatever the body, the
\* method, the params and the upstream answers, the turn that ends a
\* request sends an envelope for it, and a turn that does not end it leaves
\* it waiting for the network.
C15_NoUnhandledFault ==
  /\ \A r \in Reqs : req[r].pc \in {"new", "tokenWait", "apiWait", "done"}
  /\ last.r # 0 =>
       \/ /\ req[last.r].pc = "done"
          /\ last.resp.hasResult \/ last.resp.hasError
       \/ /\ req[last.r].pc \in {"tokenWait", "apiWait"}
          /\ last.resp = NoResp

\* a tools/call without params is answered with an error envelope
C15_Witness ==
  /\ IsToolsCall /\ ~last.hasParams
  /\ Responded /\ last.resp.hasError

\* C16: a request whose body does not parse is answered with code -32700
\* and the id 'unknown'; the method is not resolved, no upstream call is
\* made, and the token cache and the credential context stay as they were.
C16_Answer ==
  (IsReceive /\ ~last.parses) =>
    /\ Responded
    /\ last.resp.hasError /\ ~last.resp.hasResult
    /\ last.resp.code = -32700 /\ last.resp.id = UnknownId
    /\ ~last.authed /\ ~last.lookedUp
    /\ NoUpstream

C16_Step ==
  (last'.r # 0 /\ last'.upKind = "" /\ ~last'.parses) =>
    /\ tokenCache' = tokenCache
    /\ requestContext' = requestContext

C16_ParseError ==
  /\ []C16_Answer
  /\ [][C16_Step]_vars

\* the unparseable request arrives while the cache holds a token
C16_Witness ==
  /\ IsReceive /\ ~last.parses
  /\ last.resp.code = -32700 /\ last.resp.id = UnknownId
  /\ \E c \in ClientIds : tokenCache[c] # NoEntry

\* C17: a request whose method is none of initialize, tools/list and
\* tools/call is answered with code -32601 and a message that names the
\* method, and makes no upstream call.
C17_UnknownMethod ==
  ( /\ IsReceive /\ last.parses
    /\ last.method \notin {"initialize", "tools/list", "tools/call"} )
  => /\ Responded
     /\ last.resp.hasError /\ last.resp.code = -32601
     /\ last.resp.message = "Method " \o last.method \o " not found"
     /\ NoUpstream

C17_Witness ==
  /\ IsReceive /\ last.parses /\ last.method = "notifications/initialized"
  /\ last.resp.code = -32601
  /\ last.resp.message = "Method notifications/initialized not found"

\* C18: tools/list answers with the catalog of the seven tools, with or
\* without credentials and whatever came before, and makes no upstream call.
C18_ToolsListCatalog ==
  (IsReceive /\ last.parses /\ last.method = "tools/list") =>
    /\ Responded
    /\ last.resp.hasResult /\ ~last.resp.hasError
    /\ last.resp.result =
         <<"pets.search", "pets.get", "organizations.search",
           "organizations.get", "types.list", "types.get", "breeds.list">>
    /\ ~last.authed /\ NoUpstream

\* tools/list without credentials, after a request that filled the cache
C18_Witness ==
  /\ IsReceive /\ last.parses /\ last.method = "tools/list"
  /\ last.hdrId = Null /\ last.hdrSecret = Null
  /\ Len(last.resp.result) = 7
  /\ \E c \in ClientIds : tokenCache[c] # NoEntry

\* C19: the Bearer token of a request's API call was issued by an exchange
\* sent with the request's own clientId; an entry of the cache holds a
\* token issued to the clientId it is stored under; and an entry is written
\* only by a request of that clientId.
C19_BearerIssuedToOwnClient ==
  \A r \in Reqs :
    req[r].pc = "apiWait" =>
      /\ req[r].apiToken \in Reqs
      /\ issued[req[r].apiToken] = req[r].ownId

C19_EntryIssuedToItsKey ==
  \A c \in ClientIds :
    tokenCache[c] # NoEntry =>
      /\ tokenCache[c].access_token \in Reqs
      /\ issued[tokenCache[c].access_token] = c

C19_WriteByOwnClient ==
  \A c \in ClientIds :
    (tokenCache'[c] # tokenCache[c] /\ tokenCache'[c] # NoEntry) =>
      \E r \in Reqs :
        /\ req[r].pc = "tokenWait" /\ last'.r = r
        /\ req[r].ownId = c
        /\ tokenCache'[c].access_token = r

C19_TokenPerClient ==
  /\ [](C19_BearerIssuedToOwnClient /\ C19_EntryIssuedToItsKey)
  /\ [][C19_WriteByOwnClient]_vars

\* two clients in flight: one sends the token an earlier request of its
\* clientId obtained, the other exchanges for a token of its own
C19_Witness ==
  \E r1, r2 \in Reqs :
    /\ r1 # r2
    /\ req[r2].pc = "apiWait" /\ req[r2].apiToken = r1
    /\ issued[r1] = req[r2].ownId
    /\ tokenCache[req[r2].ownId].access_token = r1

\* C20: a tools/call makes at most one token exchange and at most one API
\* GET; a failure of either ends the request in that turn with an error
\* envelope and no result, without another upstream call; and a request
\* that has been answered makes no call any more.
C20_AtMostOneEach ==
  \A r \in Reqs : req[r].nTok <= 1 /\ req[r].nApi <= 1

C20_FailureEnds ==
  \A r \in Reqs :
    (last'.r = r /\ last'.upKind # "" /\ last'.upStatus # 200) =>
      /\ req'[r].pc = "done"
      /\ req'[r].nTok = req[r].nTok /\ req'[r].nApi = req[r].nApi
      /\ last'.resp.hasError /\ ~last'.resp.hasResult

C20_DoneIsFinal ==
  \A r \in Reqs : req[r].pc = "done" => req'[r] = req[r]

C20_NoRetry ==
  /\ []C20_AtMostOneEach
  /\ [][C20_FailureEnds /\ C20_DoneIsFinal]_vars

\* the token exchange was rejected by the network: one exchange, no GET
C20_Witness ==
  /\ last.upKind = "token" /\ last.upStatus = NetworkError
  /\ Responded /\ last.resp.hasError
  /\ req[last.r].nTok = 1 /\ req[last.r].nApi = 0

\* the turn ran a search tool on arguments its schema accepts
IsSearchCall(name) ==
  /\ IsToolsCall /\ last.hasParams /\ last.name = name
  /\ last.authed /\ last.args \in {"ok", "paged", "full"}

\* C21 (as claimed): for pets.search and organizations.search alike, the
\* input that is validated and handed on has, for each of status, sort,
\* page and limit, the caller's value if there is one and otherwise
\* status = adoptable, sort = recent, page = 1, limit = 20.
C21_SearchDefaults ==
  \A name \in {"pets.search", "organizations.search"} :
    IsSearchCall(name) =>
      \A f \in SearchFields :
        last.params[f] =
          IF ArgObject(last.args)[f] # Undefined THEN ArgObject(last.args)[f]
          ELSE CASE f = "status" -> "adoptable"
                 [] f = "sort" -> "recent"
                 [] f = "page" -> "1"
                 [] f = "limit" -> "20"

\* C21 (amended): pets.search hands on, for each of status, sort, page and
\* limit, the caller's value if there is one and otherwise adoptable,
\* recent, 1, 20. organizations.search does so for page and limit only: its
\* sort is the caller's value or absent, and it hands on no status at all.
C21_SearchDefaultsPerTool ==
  /\ IsSearchCall("pets.search") =>
       \A f \in SearchFields :
         last.params[f] =
           IF ArgObject(last.args)[f] # Undefined THEN ArgObject(last.args)[f]
           ELSE CASE f = "status" -> "adoptable"
                  [] f = "sort" -> "recent"
                  [] f = "page" -> "1"
                  [] f = "limit" -> "20"
  /\ IsSearchCall("organizations.search") =>
       /\ last.params.page =
            IF ArgObject(last.args).page # Undefined
            THEN ArgObject(last.args).page ELSE "1"
       /\ last.params.limit =
            IF ArgObject(last.args).limit # Undefined
            THEN ArgObject(last.args).limit ELSE "20"
       /\ last.params.sort = ArgObject(last.args).sort
       /\ last.params.status = Undefined

\* organizations.search called with a page and nothing else
C21_Witness ==
  /\ IsSearchCall("organizations.search") /\ last.args = "paged"
  /\ last.params = [status |-> Undefined, sort |-> Undefined,
                    page |-> "2", limit |-> "20"]
  /\ InFlight(last.r)

\* the turn answered without a tool handler: initialize, tools/list, an
\* unknown method, tool not found, or authentication required
IsStaticAnswer(turn) ==
  /\ turn.r # 0 /\ turn.upKind = "" /\ turn.parses
  /\ \/ turn.method # "tools/call"
     \/ /\ turn.method = "tools/call" /\ ~turn.authed
        /\ turn.resp.code \in {-32601, -32001}

\* C22: the token cache changes only in getAccessToken - in the turn of a
\* lookup, by the sweep, or in the turn that handles a successful exchange,
\* by the set - and a turn that answers initialize, tools/list, an unknown
\* method, tool not found or authentication required leaves the cache and
\* the credential context as they were and makes no upstream call.
C22_Step ==
  /\ tokenCache' # tokenCache =>
       \/ last'.lookedUp
       \/ last'.upKind = "token" /\ last'.upStatus = 200
  /\ IsStaticAnswer(last') =>
       /\ tokenCache' = tokenCache
       /\ requestContext' = requestContext
       /\ req'[last'.r].pc = "done"
       /\ req'[last'.r].nTok = 0 /\ req'[last'.r].nApi = 0

C22_CacheFrame == [][C22_Step]_vars

\* authentication required is answered while the cache holds an entry that
\* a sweep would delete
C22_Witness ==
  /\ IsStaticAnswer(last) /\ last.method = "tools/call"
  /\ last.resp.code = -32001
  /\ \E c \in ClientIds :
       tokenCache[c] # NoEntry /\ tokenCache[c].expires_at <= clock

\* C23: a request gets one response and is terminal after it, and, every
\* upstream call returning or failing in the end, every request that has
\* arrived gets its response, however the requests interleave: again and
\* again a state comes in which no request is left waiting, and a waiting
\* request leaves its wait only by being answered.
C23_AtMostOneResponse ==
  \A r \in Reqs :
    /\ req[r].nResp <= 1
    /\ req[r].nResp = 1 <=> req[r].pc = "done"

C23_Terminal ==
  \A r \in Reqs : req[r].nResp = 1 => req'[r] = req[r]

\* no request is waiting: each one is still to come or has its response
C23_AllAnswered ==
  \A r \in Reqs : req[r].pc = "new" \/ req[r].nResp = 1

C23_OneResponseEventually ==
  /\ []C23_AtMostOneResponse
  /\ [][C23_Terminal]_vars
  /\ []<>C23_AllAnswered

\* a later request has been answered while an earlier one still waits
C23_Witness ==
  \E r1, r2 \in Reqs :
    /\ r1 < r2
    /\ req[r1].pc = "apiWait"
    /\ req[r2].nResp = 1 /\ req[r2].nTok = 1 /\ req[r2].nApi = 1

\* C24: no request ever fails with 'Request context missing credentials':
\* a tools/call that passed the authentication check reads in
\* petfinderRequest the credentials it wrote itself, whatever other
\* requests are in flight and whatever they cleared before.
C24_ContextNeverMissing ==
  /\ last.resp.message # "Request context missing credentials"
  /\ (IsToolsCall /\ last.authed /\ last.lookedUp) =>
       /\ requestContext.clientId = last.hdrId
       /\ requestContext.clientSecret = last.hdrSecret

\* a tools/call reads its credentials while a request of another client is
\* in flight
C24_Witness ==
  /\ IsToolsCall /\ last.authed /\ last.lookedUp
  /\ \E q \in Reqs :
       q # last.r /\ InFlight(q) /\ req[q].ownId # req[last.r].ownId

\* C25 (as claimed): a request is given a cached token only if it presents
\* the clientSecret of the request whose exchange obtained the token.
C25_ReuseNeedsSameSecret ==
  \A r1, r2 \in Reqs :
    ( /\ r1 # r2
      /\ req[r1].pc = "apiWait" /\ req[r1].nTok = 1 /\ req[r1].token = r1
      /\ req[r2].pc = "apiWait" /\ req[r2].nTok = 0 /\ req[r2].apiToken = r1 )
    => req[r2].ownSecret = req[r1].usedSecret

\* C26 (as claimed): a request whose body parses is never answered with the
\* parse-error code -32700.
C26_ParseErrorOnlyForUnparseable ==
  (IsReceive /\ last.parses) => last.resp.code # -32700

\* C27 (as claimed): the response to a parsed request that carries an id
\* has exactly that id, whatever the method and the id.
C27_IdEchoed ==
  (IsReceive /\ last.parses /\ Responded) => last.resp.id = last.id

\* C28: a failed API call, whatever its status, leaves the token cache as
\* it was, so the token it was sent with stays cached; and a lookup that
\* finds an entry with now < expires_at - 60 returns its token without an
\* exchange, whatever has happened to calls made with that token.
C28_Step ==
  (last'.upKind = "api" /\ last'.upStatus # 200) => tokenCache' = tokenCache

C28_UsableEntryReturned ==
  ( /\ IsToolsCall /\ last.lookedUp /\ last.seen # NoEntry
    /\ req[last.r].now < last.seen.expires_at - SafetyMargin )
  => /\ last.hit
     /\ req[last.r].nTok = 0
     /\ req[last.r].apiToken = last.seen.access_token

C28_FailedCallKeepsToken ==
  /\ [][C28_Step]_vars
  /\ []C28_UsableEntryReturned

\* the API answers 401 to a call, and the token the call was sent with is
\* still cached and inside its margin
C28_Witness ==
  /\ last.upKind = "api" /\ last.upStatus = 401 /\ Responded
  /\ \E c \in ClientIds :
       /\ tokenCache[c] # NoEntry
       /\ tokenCache[c].access_token = req[last.r].apiToken
       /\ clock < tokenCache[c].expires_at - SafetyMargin

====
